---- MODULE Spec2Model ----
(***************************************************************************)
(* Model of the panel grid space allocator of pyqtribbon                   *)
(* (src/ribbon/panel.py, class RibbonGridLayoutManager).                   *)
(*                                                                         *)
(* The occupancy grid self.cells is a numpy boolean matrix of shape        *)
(* (rows, columns); TRUE means free, FALSE means occupied.  It is modelled *)
(* as a sequence of rows, each row a sequence of booleans.  The source     *)
(* indexes from 0; the operators below take 0-based indices and translate  *)
(* them to the 1-based TLA+ sequences.                                     *)
(*                                                                         *)
(* Domain of the model: rows >= 1, rowSpan >= 1, colSpan >= 1 (the ranges  *)
(* the panel layer passes).                                                *)
(***************************************************************************)
EXTENDS Integers, Sequences, FiniteSets

\* ---------------------------------------------------------------- bounds
MaxRows == 3
MaxColSpan == 2
MaxCalls == 3
MaxPackRows == 6
MaxPackCalls == 4
MaxWideRows == 2
MaxWideSpan == 3
MaxWideCalls == 2
MaxRunRows == 2
MaxRunCalls == 3
MaxPanelRows == 6
MaxPanelOps == 2
MaxRemoveRows == 2
MaxRemoveOps == 3
MaxSizeRows == 4
MaxSizeOps == 3
MaxBulkRows == 6
MaxBulkEntries == 2
MaxRibbonOps == 4
MaxCategoryOps == 4

\* ------------------------------------------------- RibbonSpaceFindMode
ColumnWise == 0
RowWise == 1

VARIABLES
    rows,      \* RibbonGridLayoutManager.rows
    cells,     \* RibbonGridLayoutManager.cells
    ctorRows,  \* the rows argument __init__ was called with
    before,    \* self.cells as it was when the latest request_cells call began
    history,   \* every request_cells call so far, with what it returned or raised
    \* one RibbonPanel (the allocator above is its _gridLayoutManager)
    maxRows,        \* RibbonPanel._maxRows
    largeRows,      \* RibbonPanel._largeRows
    mediumRows,     \* RibbonPanel._mediumRows
    smallRows,      \* RibbonPanel._smallRows
    widgets,        \* RibbonPanel._widgets
    actionsLayout,  \* the items of RibbonPanel._actionsLayout, in insertion order
    removed,        \* the arguments removeWidget has been called with
    panelOp,        \* the latest panel operation and how it ended
    \* one Ribbon
    categories,     \* Ribbon._categories
    tabBar,         \* the tabs of Ribbon._tabBar
    stackedWidget,  \* the pages of Ribbon._stackedWidget
    tabCurrent,     \* Ribbon._tabBar.currentIndex()
    stackCurrent,   \* Ribbon._stackedWidget.currentIndex()
    created,        \* the Category objects addCategory has constructed
    ribbonOp,       \* the latest ribbon operation and how it ended
    \* one Category
    panels,         \* Category._panels
    scrollLayout,   \* the items of Category._scrollLayout
    panelCount,     \* how many Panel objects addPanel has constructed
    categoryOp      \* the latest category operation and how it ended

allocatorVars == <<rows, cells, ctorRows, before, history>>
panelVars == <<maxRows, largeRows, mediumRows, smallRows, widgets, actionsLayout,
               removed, panelOp>>
ribbonVars == <<categories, tabBar, stackedWidget, tabCurrent, stackCurrent,
                created, ribbonOp>>
categoryVars == <<panels, scrollLayout, panelCount, categoryOp>>

vars == <<allocatorVars, panelVars, ribbonVars, categoryVars>>

\* ------------------------------------------------------ numpy helpers
Min2(a, b) == IF a < b THEN a ELSE b

\* cells.shape[0]
NRows(c) == Len(c)

\* cells.shape[1]
NCols(c) == IF Len(c) = 0 THEN 0 ELSE Len(c[1])

\* np.ones((rows, n), dtype=bool)
Ones(r, n) == [i \in 1..r |-> [k \in 1..n |-> TRUE]]

\* cells[r0:r1, c0:c1].all()  (slice bounds are clipped to the shape;
\* the conjunction over an empty slice is TRUE)
AllFree(c, r0, r1, c0, c1) ==
    \A r \in r0..(Min2(r1, NRows(c)) - 1) :
        \A k \in c0..(Min2(c1, NCols(c)) - 1) : c[r + 1][k + 1]

\* cells[r0:r1, c0:c1] = False
MarkRect(c, r0, r1, c0, c1) ==
    [r \in 1..Len(c) |->
        [k \in 1..Len(c[r]) |->
            IF r - 1 >= r0 /\ r - 1 < r1 /\ k - 1 >= c0 /\ k - 1 < c1
            THEN FALSE
            ELSE c[r][k]]]

\* np.append(cells, np.ones((rows, n), dtype=bool), axis=1)
AppendCols(c, r, n) == [i \in 1..Len(c) |-> c[i] \o Ones(r, n)[i]]

\* Variant: the rightmost column counts as free when any of its cells is
LastColumnAnyFree(c) ==
    \E r \in 0..(NRows(c) - 1) : c[r + 1][NCols(c)]

\* cells[:, -1].all()
LastColumnFree(c) == AllFree(c, 0, NRows(c), NCols(c) - 1, NCols(c))

NoPlace == [found |-> FALSE, cells |-> <<>>, row |-> -1, col |-> -1]

\* Variant: the place is returned but its cells are not marked
PlaceNoMark(c, rowSpan, colSpan, row, col) ==
    [found |-> TRUE, cells |-> c, row |-> row, col |-> col]

\* Variant: the place is marked from col to the right edge of the grid
PlaceToRightEdge(c, rowSpan, colSpan, row, col) ==
    [found |-> TRUE,
     cells |-> MarkRect(c, row, row + rowSpan, col, NCols(c)),
     row |-> row, col |-> col]

\* The result of a scan that found a place at (row, col)
Place(c, rowSpan, colSpan, row, col) ==
    [found |-> TRUE,
     cells |-> MarkRect(c, row, row + rowSpan, col, col + colSpan),
     row |-> row, col |-> col]

\* Positions of the current grid where a rowSpan x colSpan rectangle is free
FitSet(c, rowSpan, colSpan) ==
    {p \in (0..(NRows(c) - rowSpan)) \X (0..(NCols(c) - colSpan)) :
        AllFree(c, p[1], p[1] + rowSpan, p[2], p[2] + colSpan)}

\* ------------------------------------------ RibbonGridLayoutManager.__init__
NewGridTransposed(r) == Ones(1, r)

NewGrid(r) == Ones(r, 1)

\* ------------------------------------- RibbonGridLayoutManager.request_cells
InvalidSpanLoose(rowSpan, r) == rowSpan > r + 1

InvalidSpanStrict(rowSpan, r) == rowSpan >= r

\* if rowSpan > self.rows: raise ValueError("RowSpan is too large")
InvalidSpan(rowSpan, r) == rowSpan > r

\* The nested loops of the ColumnWise branch, resumed at (row, col)
RECURSIVE ColumnWiseScan(_, _, _, _, _)
ColumnWiseScan(c, rowSpan, colSpan, row, col) ==
    IF row >= NRows(c) - rowSpan + 1
    THEN NoPlace
    ELSE IF col >= NCols(c) - colSpan + 1
         THEN ColumnWiseScan(c, rowSpan, colSpan, row + 1, 0)
         ELSE IF AllFree(c, row, row + rowSpan, col, col + colSpan)
              THEN Place(c, rowSpan, colSpan, row, col)
              ELSE ColumnWiseScan(c, rowSpan, colSpan, row, col + 1)

\* Variant: the row loop stops one row early
ColumnWisePlaceShort(c, rowSpan, colSpan) ==
    LET S == {p \in FitSet(c, rowSpan, colSpan) : p[1] < NRows(c) - rowSpan}
    IN  IF S = {} THEN NoPlace
        ELSE LET p == CHOOSE q \in S : \A x \in S :
                          q[1] < x[1] \/ (q[1] = x[1] /\ q[2] <= x[2])
             IN  Place(c, rowSpan, colSpan, p[1], p[2])

\* Variant: columns in the outer loop, rows in the inner loop
ColumnWisePlaceColMajor(c, rowSpan, colSpan) ==
    LET S == FitSet(c, rowSpan, colSpan)
    IN  IF S = {} THEN NoPlace
        ELSE LET p == CHOOSE q \in S : \A x \in S :
                          q[2] < x[2] \/ (q[2] = x[2] /\ q[1] <= x[1])
             IN  Place(c, rowSpan, colSpan, p[1], p[2])

\* Variant: the column loop runs from the right edge to the left
ColumnWisePlaceRightFirst(c, rowSpan, colSpan) ==
    LET S == FitSet(c, rowSpan, colSpan)
    IN  IF S = {} THEN NoPlace
        ELSE LET p == CHOOSE q \in S : \A x \in S :
                          q[1] < x[1] \/ (q[1] = x[1] /\ q[2] >= x[2])
             IN  Place(c, rowSpan, colSpan, p[1], p[2])

\* The ColumnWise branch: first free rectangle, rows outer, columns inner
ColumnWisePlace(c, rowSpan, colSpan) == ColumnWiseScan(c, rowSpan, colSpan, 0, 0)

\* Variant: the RowWise loop takes the free run as it is, without growing
RowWiseTakeNoGrow(c, r, colSpan, col) ==
    [found |-> TRUE,
     cells |-> MarkRect(c, 0, 1, col, NCols(c)),
     row |-> 0, col |-> col]

\* The body of the RowWise loop once column col satisfies cells[0, col:].all()
RowWiseTake(c, r, colSpan, col) ==
    LET grown == IF NCols(c) - col < colSpan
                 THEN AppendCols(c, r, colSpan - (NCols(c) - col))
                 ELSE c
    IN  [found |-> TRUE,
         cells |-> MarkRect(grown, 0, 1, col, NCols(grown)),
         row |-> 0, col |-> col]

\* The loop of the RowWise branch, resumed at col
RECURSIVE RowWiseScan(_, _, _, _)
RowWiseScan(c, r, colSpan, col) ==
    IF col >= NCols(c)
    THEN NoPlace
    ELSE IF AllFree(c, 0, 1, col, NCols(c))
         THEN RowWiseTake(c, r, colSpan, col)
         ELSE RowWiseScan(c, r, colSpan, col + 1)

\* Variant: the RowWise branch appends colSpan columns whenever it grows
RowWisePlaceOverGrow(c, r, colSpan) ==
    LET S == {k \in 0..(NCols(c) - 1) : AllFree(c, 0, 1, k, NCols(c))}
    IN  IF S = {} THEN NoPlace
        ELSE LET col == CHOOSE k \in S : \A x \in S : k <= x
                 grown == IF NCols(c) - col < colSpan
                          THEN AppendCols(c, r, colSpan)
                          ELSE c
             IN  [found |-> TRUE,
                  cells |-> MarkRect(grown, 0, 1, col, NCols(grown)),
                  row |-> 0, col |-> col]

\* The RowWise branch: first column from which row 0 is free to the right edge
RowWisePlace(c, r, colSpan) == RowWiseScan(c, r, colSpan, 0)

\* Variant: the overflow branch never reuses a free rightmost column
OverflowNoReuse(c, r, rowSpan, colSpan) ==
    LET cols == NCols(c)
        grown == AppendCols(c, r, colSpan)
    IN  [cells |-> MarkRect(grown, 0, rowSpan, cols, cols + colSpan),
         row |-> 0, col |-> cols]

\* Variant: the overflow branch marks its rows from the left edge of the grid
OverflowFromLeftEdge(c, r, rowSpan, colSpan) ==
    LET reuse == LastColumnFree(c)
        cols == IF reuse THEN NCols(c) - 1 ELSE NCols(c)
        colSpan1 == IF reuse THEN colSpan - 1 ELSE colSpan
        grown == AppendCols(c, r, colSpan1)
    IN  [cells |-> MarkRect(grown, 0, rowSpan, 0, cols + colSpan),
         row |-> 0, col |-> cols]

\* Variant: the overflow branch marks colSpan1 columns instead of colSpan
OverflowMarksColSpan1(c, r, rowSpan, colSpan) ==
    LET reuse == LastColumnFree(c)
        cols == IF reuse THEN NCols(c) - 1 ELSE NCols(c)
        colSpan1 == IF reuse THEN colSpan - 1 ELSE colSpan
        grown == AppendCols(c, r, colSpan1)
    IN  [cells |-> MarkRect(grown, 0, rowSpan, cols, cols + colSpan1),
         row |-> 0, col |-> cols]

\* Variant: a reused rightmost column does not shorten what is appended
OverflowReuseFullAppend(c, r, rowSpan, colSpan) ==
    LET reuse == LastColumnFree(c)
        cols == IF reuse THEN NCols(c) - 1 ELSE NCols(c)
        grown == AppendCols(c, r, colSpan)
    IN  [cells |-> MarkRect(grown, 0, rowSpan, cols, cols + colSpan),
         row |-> 0, col |-> cols]

\* Variant: colSpan1 is decremented whether or not a column is reused
OverflowShortAppend(c, r, rowSpan, colSpan) ==
    LET reuse == LastColumnFree(c)
        cols == IF reuse THEN NCols(c) - 1 ELSE NCols(c)
        grown == AppendCols(c, r, colSpan - 1)
    IN  [cells |-> MarkRect(grown, 0, rowSpan, cols, cols + colSpan),
         row |-> 0, col |-> cols]

\* Variant: the overflow branch marks every row of the columns it takes
OverflowMarksAllRows(c, r, rowSpan, colSpan) ==
    LET reuse == LastColumnFree(c)
        cols == IF reuse THEN NCols(c) - 1 ELSE NCols(c)
        colSpan1 == IF reuse THEN colSpan - 1 ELSE colSpan
        grown == AppendCols(c, r, colSpan1)
    IN  [cells |-> MarkRect(grown, 0, r, cols, cols + colSpan),
         row |-> 0, col |-> cols]

\* The code after the branches: grow the grid and place at row 0
Overflow(c, r, rowSpan, colSpan) ==
    LET reuse == LastColumnFree(c)
        cols == IF reuse THEN NCols(c) - 1 ELSE NCols(c)
        colSpan1 == IF reuse THEN colSpan - 1 ELSE colSpan
        grown == AppendCols(c, r, colSpan1)
    IN  [cells |-> MarkRect(grown, 0, rowSpan, cols, cols + colSpan),
         row |-> 0, col |-> cols]

\* Variant: every request is served by the ColumnWise branch
request_cellsIgnoreMode(c, r, rowSpan, colSpan, mode) ==
    IF InvalidSpan(rowSpan, r)
    THEN [status |-> "ValueError", cells |-> c, row |-> -1, col |-> -1]
    ELSE LET p == ColumnWisePlace(c, rowSpan, colSpan)
             q == IF p.found THEN p ELSE Overflow(c, r, rowSpan, colSpan)
         IN  [status |-> "ok", cells |-> q.cells, row |-> q.row, col |-> q.col]

\* request_cells(rowSpan, colSpan, mode) on a manager with grid c and r rows:
\* what it returns or raises, and the grid it leaves
request_cells(c, r, rowSpan, colSpan, mode) ==
    IF InvalidSpan(rowSpan, r)
    THEN [status |-> "ValueError", cells |-> c, row |-> -1, col |-> -1]
    ELSE LET p == IF mode = ColumnWise
                  THEN ColumnWisePlace(c, rowSpan, colSpan)
                  ELSE RowWisePlace(c, r, colSpan)
             q == IF p.found THEN p ELSE Overflow(c, r, rowSpan, colSpan)
         IN  [status |-> "ok", cells |-> q.cells, row |-> q.row, col |-> q.col]

\* ------------------------------------------------------------ the machine
NoOp == [kind |-> "none", status |-> "none", n |-> 0]

\* No panel has been constructed
NoPanel ==
    /\ maxRows = 0
    /\ largeRows = 0
    /\ mediumRows = 0
    /\ smallRows = 0
    /\ widgets = <<>>
    /\ actionsLayout = <<>>
    /\ removed = {}
    /\ panelOp = NoOp

\* No ribbon has been constructed
NoRibbon ==
    /\ categories = <<>>
    /\ tabBar = <<>>
    /\ stackedWidget = <<>>
    /\ tabCurrent = -1
    /\ stackCurrent = -1
    /\ created = <<>>
    /\ ribbonOp = NoOp

\* No category has been constructed
NoCategory ==
    /\ panels = <<>>
    /\ scrollLayout = <<>>
    /\ panelCount = 0
    /\ categoryOp = NoOp

\* RibbonGridLayoutManager(r)
FreshManager(r) ==
    /\ rows = r
    /\ ctorRows = r
    /\ cells = NewGrid(r)
    /\ before = cells
    /\ history = <<>>

\* A manager on its own, owned by no panel
Fresh(r) == FreshManager(r) /\ NoPanel /\ NoRibbon /\ NoCategory

\* RibbonGridLayoutManager(rows)
Init == \E r \in 1..MaxRows : Fresh(r)

\* One call of request_cells on the manager, recorded with its outcome
CallManager(rowSpan, colSpan, mode) ==
    LET res == request_cells(cells, rows, rowSpan, colSpan, mode)
    IN  /\ cells' = res.cells
        /\ before' = cells
        /\ history' = Append(history,
                             [mode |-> mode, rowSpan |-> rowSpan, colSpan |-> colSpan,
                              status |-> res.status, row |-> res.row, col |-> res.col])
        /\ UNCHANGED <<rows, ctorRows>>

\* One call of request_cells made directly on a manager
Call(rowSpan, colSpan, mode) ==
    /\ CallManager(rowSpan, colSpan, mode)
    /\ UNCHANGED <<panelVars, ribbonVars, categoryVars>>

\* Any caller's request: either mode, any column span up to maxSpan, any row
\* span up to one more than the grid has rows
Request(maxCalls, maxSpan) ==
    /\ Len(history) < maxCalls
    /\ \E mode \in {ColumnWise, RowWise} :
         \E rowSpan \in 1..(rows + 1) :
           \E colSpan \in 1..maxSpan : Call(rowSpan, colSpan, mode)

RequestCells == Request(MaxCalls, MaxColSpan)

Next == RequestCells

Spec == Init /\ [][Next]_vars

\* A fresh allocator that is asked the same valid request again and again
InitPack == \E r \in 1..MaxPackRows : Fresh(r)

RepeatRequest ==
    /\ Len(history) < MaxPackCalls
    /\ \E mode \in {ColumnWise, RowWise} :
         \E rowSpan \in 1..rows :
           \E colSpan \in 1..MaxColSpan :
             /\ IF history = <<>>
                THEN TRUE
                ELSE /\ history[1].mode = mode
                     /\ history[1].rowSpan = rowSpan
                     /\ history[1].colSpan = colSpan
             /\ Call(rowSpan, colSpan, mode)

NextPack == RepeatRequest

SpecPack == InitPack /\ [][NextPack]_vars

\* Short runs of arbitrary requests with wider column spans
InitWide == \E r \in 1..MaxWideRows : Fresh(r)

RequestWide == Request(MaxWideCalls, MaxWideSpan)

NextWide == RequestWide

SpecWide == InitWide /\ [][NextWide]_vars

\* Runs of arbitrary requests on allocators of few rows
InitRun == \E r \in 1..MaxRunRows : Fresh(r)

RequestRun == Request(MaxRunCalls, MaxColSpan)

NextRun == RequestRun

SpecRun == InitRun /\ [][NextRun]_vars

\* ------------------------------------------------------------ vocabulary
Called == Len(history) > 0
Last == history[Len(history)]
Ok(i) == history[i].status = "ok"

\* The rectangles of calls i and j share a cell
Overlap(i, j) ==
    /\ history[i].row < history[j].row + history[j].rowSpan
    /\ history[j].row < history[i].row + history[i].rowSpan
    /\ history[i].col < history[j].col + history[j].colSpan
    /\ history[j].col < history[i].col + history[i].colSpan

\* The request can be served without growing grid c
FitsInGrid(c, rowSpan, colSpan, mode) ==
    IF mode = ColumnWise
    THEN FitSet(c, rowSpan, colSpan) # {}
    ELSE \E k \in 0..(NCols(c) - 1) :
            AllFree(c, 0, 1, k, NCols(c)) /\ NCols(c) - k >= colSpan

Occupied(c) == {p \in (0..(NRows(c) - 1)) \X (0..(NCols(c) - 1)) : ~c[p[1] + 1][p[2] + 1]}

\* The latest call was a successful ColumnWise request
LastColumnWiseOk == Called /\ Last.status = "ok" /\ Last.mode = ColumnWise

\* Positions where the latest request would have fitted in the grid it found
LastFits == FitSet(before, Last.rowSpan, Last.colSpan)

\* ------------------------------------------------------------------ C1
\* C1 (no-overlap): the rectangles (row, col, rowSpan, colSpan) of any two
\* successful request_cells calls on one allocator are disjoint.
C1_NoOverlap ==
    \A i \in 1..Len(history) : \A j \in 1..Len(history) :
        (i < j /\ Ok(i) /\ Ok(j)) => ~Overlap(i, j)

\* ------------------------------------------------------------------ C2
\* C2 (span rejection): a request_cells call with rowSpan > rows raises
\* ValueError, in either mode and in every allocator state, and leaves the
\* grid (column count and every cell) as it was.
C2_SpanRejection ==
    (Called /\ Last.rowSpan > rows) =>
        /\ Last.status = "ValueError"
        /\ cells = before

\* A rejected call on a grid that already holds placements and has grown
C2_Witness ==
    /\ Called
    /\ Last.rowSpan > rows
    /\ Last.status = "ValueError"
    /\ NCols(before) > 1
    /\ Occupied(before) # {}

\* ------------------------------------------------------------------ C3
\* C3 (totality): a request_cells call with 1 <= rowSpan <= rows and
\* colSpan >= 1 succeeds and returns a placement, in either mode and in every
\* allocator state; a call fails only with the invalid-span error, and only
\* when rowSpan > rows.
C3_Totality ==
    \A i \in 1..Len(history) :
        /\ (history[i].rowSpan >= 1 /\ history[i].rowSpan <= rows) =>
              (Ok(i) /\ history[i].row >= 0 /\ history[i].col >= 0)
        /\ ~Ok(i) => (history[i].status = "ValueError" /\ history[i].rowSpan > rows)

\* A full-height request wider than one column succeeds on a used grid
C3_Witness ==
    /\ Len(history) >= 2
    /\ Ok(1)
    /\ Last.rowSpan = rows
    /\ Last.colSpan > 1
    /\ Last.status = "ok"

\* ------------------------------------------------------------------ C4
\* C4 (monotonic growth): the grid starts with exactly 1 column; after every
\* request_cells call, successful or failed, the column count is at least
\* what it was before the call; the grid always has as many rows as the
\* allocator was constructed with.
C4_MonotonicGrowth ==
    /\ ~Called => NCols(cells) = 1
    /\ Called => NCols(cells) >= NCols(before)
    /\ rows = ctorRows
    /\ NRows(cells) = ctorRows
    /\ \A r \in 1..Len(cells) : Len(cells[r]) = NCols(cells)

\* A call that grew the grid followed by one that did not
C4_Witness ==
    /\ Len(history) >= 2
    /\ NCols(before) > 1
    /\ NCols(cells) = NCols(before)
    /\ ctorRows > 1

\* ------------------------------------------------------------------ C5
\* C5 (ColumnWise packing order): on a fresh allocator with R rows, the i-th
\* (i = 0, 1, ...) of a run of identical ColumnWise requests (rowSpan = k,
\* colSpan = 1) returns (k * (i mod floor(R/k)), i div floor(R/k)).
C5_ColumnWisePacking ==
    \A n \in 1..Len(history) :
        (history[1].mode = ColumnWise /\ history[1].colSpan = 1) =>
            LET k == history[1].rowSpan
                perCol == rows \div k
            IN  /\ Ok(n)
                /\ history[n].row = k * ((n - 1) % perCol)
                /\ history[n].col = (n - 1) \div perCol

\* R = 6, k = 2: the four calls of the example
C5_Witness ==
    /\ rows = 6
    /\ Len(history) = 4
    /\ \A n \in 1..4 : history[n].mode = ColumnWise
                       /\ history[n].rowSpan = 2 /\ history[n].colSpan = 1
    /\ <<history[1].row, history[1].col>> = <<0, 0>>
    /\ <<history[2].row, history[2].col>> = <<2, 0>>
    /\ <<history[3].row, history[3].col>> = <<4, 0>>
    /\ <<history[4].row, history[4].col>> = <<0, 1>>

\* ------------------------------------------------------------------ C6
\* C6 (RowWise packing): on a fresh allocator of any row count, n successive
\* RowWise requests (rowSpan = 1, colSpan = w) return (0, 0), (0, w), ...,
\* (0, (n-1) * w), and the grid then has exactly n * w columns.
C6_RowWisePacking ==
    (Called /\ history[1].mode = RowWise /\ history[1].rowSpan = 1) =>
        LET w == history[1].colSpan
        IN  /\ \A n \in 1..Len(history) :
                  Ok(n) /\ history[n].row = 0 /\ history[n].col = (n - 1) * w
            /\ NCols(cells) = Len(history) * w

\* Three requests of width 2: (0,0), (0,2), (0,4), six columns
C6_Witness ==
    /\ Len(history) = 3
    /\ \A n \in 1..3 : history[n].mode = RowWise
                       /\ history[n].rowSpan = 1 /\ history[n].colSpan = 2
    /\ history[1].col = 0 /\ history[2].col = 2 /\ history[3].col = 4
    /\ NCols(cells) = 6
    /\ rows > 1

\* ------------------------------------------------------------------ C7
\* C7 (grid growth exactness): when a request of colSpan w cannot be served
\* inside the current grid and the rightmost column is entirely free, the
\* grid grows by exactly w - 1 columns and the placement starts in that
\* rightmost column.
C7_GrowthExactness ==
    (/\ Called
     /\ Last.status = "ok"
     /\ ~FitsInGrid(before, Last.rowSpan, Last.colSpan, Last.mode)
     /\ LastColumnFree(before)) =>
        /\ NCols(cells) = NCols(before) + Last.colSpan - 1
        /\ Last.col = NCols(before) - 1

\* colSpan = 3 with one free trailing column: two columns appended
C7_Witness ==
    /\ Called
    /\ Last.status = "ok"
    /\ Last.mode = ColumnWise
    /\ Last.colSpan = 3
    /\ LastColumnFree(before)
    /\ ~FitsInGrid(before, Last.rowSpan, Last.colSpan, Last.mode)
    /\ NCols(cells) = NCols(before) + 2

\* ------------------------------------------------------------------ C8
\* C8 (ColumnWise tie-break): when some position of the current grid has its
\* whole rowSpan x colSpan rectangle free, a ColumnWise request returns the
\* lexicographically smallest such (row, col): lowest row, then lowest column.
C8_TieBreak ==
    (LastColumnWiseOk /\ LastFits # {}) =>
        /\ <<Last.row, Last.col>> \in LastFits
        /\ \A p \in LastFits :
              Last.row < p[1] \/ (Last.row = p[1] /\ Last.col <= p[2])

\* The request had a choice between a lower row further right and a higher
\* row further left
C8_Witness ==
    /\ LastColumnWiseOk
    /\ \E p \in LastFits : p[1] > Last.row /\ p[2] < Last.col
    /\ \E p \in LastFits : p[1] = Last.row /\ p[2] > Last.col

\* ------------------------------------------------------------------ C9
\* C9 as claimed (fills a column before advancing): a ColumnWise request is
\* never placed at a column c when the same rectangle would also fit,
\* entirely free, at some column c' < c of the current grid, at any row.
C9_FillsColumnFirst ==
    LastColumnWiseOk => ~\E p \in LastFits : p[2] < Last.col

\* C9 as amended: a ColumnWise request is never placed at (r, c) when the
\* same rectangle would also fit, entirely free, at some column c' < c of
\* the current grid at a row r' <= r.
C9_NoEarlierColumnAtOrAboveRow ==
    LastColumnWiseOk =>
        ~\E p \in LastFits : p[2] < Last.col /\ p[1] <= Last.row

\* An in-grid placement right of column 0 while a column further left still
\* had room lower down
C9_Witness ==
    /\ LastColumnWiseOk
    /\ <<Last.row, Last.col>> \in LastFits
    /\ Last.col > 0
    /\ \E p \in LastFits : p[2] < Last.col /\ p[1] > Last.row

\* ----------------------------------------------------------------- C10
\* C10 (RowWise row): every successful RowWise request returns row 0, for
\* every rowSpan <= rows, whether the row-0 scan or the grow-and-append
\* fall-through serves it.
C10_RowWiseRowZero ==
    \A i \in 1..Len(history) :
        (history[i].mode = RowWise /\ Ok(i)) => history[i].row = 0

\* A RowWise request served by the scan, then one served by the fall-through
\* while lower rows of the grid were free
C10_Witness ==
    /\ Len(history) >= 2
    /\ history[1].mode = RowWise /\ Ok(1)
    /\ Last.mode = RowWise /\ Last.status = "ok"
    /\ Last.rowSpan < rows
    /\ FitSet(before, Last.rowSpan, Last.colSpan) # {}
    /\ Last.col = NCols(before)

\* ------------------------------------------------- cells across a call
\* The state cell (r, k) had when the latest call began; a cell of a column
\* the call appended starts free (np.ones)
Was(r, k) == IF k < NCols(before) THEN before[r + 1][k + 1] ELSE TRUE

\* The cells of the grid after the latest call
AllCells == (0..(NRows(cells) - 1)) \X (0..(NCols(cells) - 1))

\* Cells whose state after the latest call differs from the state they had
Changed == {p \in AllCells : cells[p[1] + 1][p[2] + 1] # Was(p[1], p[2])}

\* Cells of the rectangle the latest call returned
LastRect ==
    {p \in AllCells : /\ p[1] >= Last.row /\ p[1] < Last.row + Last.rowSpan
                      /\ p[2] >= Last.col /\ p[2] < Last.col + Last.colSpan}

\* The latest call was a successful RowWise request
LastRowWiseOk == Called /\ Last.status = "ok" /\ Last.mode = RowWise

\* ----------------------------------------------------------------- C11
\* C11 as claimed (RowWise frame): a RowWise request never changes the
\* occupancy of any cell in rows 1..rows-1; the only cells whose state
\* differs after the call lie in row 0, for every rowSpan <= rows.
C11_RowWiseOnlyRowZero ==
    LastRowWiseOk => \A p \in Changed : p[1] = 0

\* C11 as amended: a RowWise request never changes the occupancy of a cell of
\* rows 1..rows-1 that existed before the call; the only cells whose state
\* differs after the call lie in row 0 or, when the grow-and-append
\* fall-through serves the request, in rows 1..rowSpan-1 of the columns that
\* call appended.
C11_RowWiseFrame ==
    LastRowWiseOk =>
        \A p \in Changed :
            \/ p[1] = 0
            \/ /\ p[2] >= NCols(before)
               /\ p[1] < Last.rowSpan
               /\ Last.col = NCols(before)

\* A RowWise request of two or more rows served by the fall-through while
\* the grid had free cells below row 0: they stay free, the appended column
\* is marked below row 0
C11_Witness ==
    /\ LastRowWiseOk
    /\ Last.rowSpan >= 2
    /\ Last.col = NCols(before)
    /\ \E k \in 0..(NCols(before) - 1) : before[2][k + 1] /\ cells[2][k + 1]
    /\ ~cells[2][Last.col + 1]

\* ----------------------------------------------------------------- C19
\* C19 (distinct placements): the (row, col) returned by any two successful
\* request_cells calls on one allocator differ, whatever their modes and
\* spans, because the top-left cell of each placement is free before its
\* call and occupied after it.
C19_DistinctPlacements ==
    /\ \A i \in 1..Len(history) : \A j \in 1..Len(history) :
          (i < j /\ Ok(i) /\ Ok(j)) =>
              <<history[i].row, history[i].col>> # <<history[j].row, history[j].col>>
    /\ (Called /\ Last.status = "ok") =>
          /\ Was(Last.row, Last.col)
          /\ ~cells[Last.row + 1][Last.col + 1]

\* Two successive identical requests, placed at different positions
C19_Witness ==
    /\ Len(history) >= 2
    /\ Ok(Len(history) - 1)
    /\ Last.status = "ok"
    /\ Last.mode = history[Len(history) - 1].mode
    /\ Last.rowSpan = history[Len(history) - 1].rowSpan
    /\ Last.colSpan = history[Len(history) - 1].colSpan
    /\ <<Last.row, Last.col>> #
          <<history[Len(history) - 1].row, history[Len(history) - 1].col>>

\* ----------------------------------------------------------------- C20
\* C20 (ColumnWise in-grid frame): when a ColumnWise request finds a free
\* rectangle inside the current grid, the column count is unchanged, exactly
\* the cells of the returned rectangle change from free to occupied and every
\* other cell keeps its state; a ColumnWise request grows the grid only if no
\* in-grid position fits.
C20_ColumnWiseFrame ==
    LastColumnWiseOk =>
        /\ LastFits # {} =>
              /\ NCols(cells) = NCols(before)
              /\ Changed = LastRect
              /\ Cardinality(LastRect) = Last.rowSpan * Last.colSpan
              /\ \A p \in LastRect : Was(p[1], p[2]) /\ ~cells[p[1] + 1][p[2] + 1]
        /\ NCols(cells) > NCols(before) => LastFits = {}

\* An in-grid placement of more than one cell, below row 0, in a grid that
\* has several columns and other free cells left
C20_Witness ==
    /\ LastColumnWiseOk
    /\ LastFits # {}
    /\ Last.row > 0
    /\ Last.rowSpan * Last.colSpan >= 2
    /\ NCols(before) >= 2
    /\ \E p \in AllCells : p \notin LastRect /\ cells[p[1] + 1][p[2] + 1]

\* ======================================== further allocator properties
\* Some call before the latest one was successful
ServedBefore == \E j \in 1..(Len(history) - 1) : Ok(j)

\* The latest call was successful
LastOk == Called /\ Last.status = "ok"

\* Cell p lies in the rectangle call i returned
InRect(p, i) ==
    /\ p[1] >= history[i].row /\ p[1] < history[i].row + history[i].rowSpan
    /\ p[2] >= history[i].col /\ p[2] < history[i].col + history[i].colSpan

\* ----------------------------------------------------------------- C21
\* C21 (RowWise row-0 exactness): a RowWise request returning (0, c) changes,
\* within row 0, exactly the cells in columns c..c+colSpan-1 from free to
\* occupied, and the column count after the call equals c + colSpan.
C21_RowWiseRowZeroExact ==
    LastRowWiseOk =>
        /\ Last.row = 0
        /\ {p \in Changed : p[1] = 0} =
              {<<0, k>> : k \in Last.col..(Last.col + Last.colSpan - 1)}
        /\ \A k \in Last.col..(Last.col + Last.colSpan - 1) :
              Was(0, k) /\ ~cells[1][k + 1]
        /\ NCols(cells) = Last.col + Last.colSpan

\* The RowWise loop serves a request wider than the fresh grid
C21_Witness ==
    /\ LastRowWiseOk
    /\ ~ServedBefore
    /\ Last.colSpan >= 2
    /\ NCols(before) = 1
    /\ NCols(cells) = Last.colSpan

\* ----------------------------------------------------------------- C23
\* C23 (row 0 saturation): in every state reached after at least one
\* successful request, every cell of row 0 is occupied; the rightmost column
\* is never entirely free again, a request that grows a used grid starts at
\* the first appended column (no one-column reuse), and no in-grid ColumnWise
\* placement after the first request has row 0.
C23_RowZeroSaturated ==
    (\E i \in 1..Len(history) : Ok(i)) =>
        /\ \A k \in 0..(NCols(cells) - 1) : ~cells[1][k + 1]
        /\ ~LastColumnFree(cells)
        /\ (LastOk /\ ServedBefore /\ NCols(cells) > NCols(before)) =>
              Last.col = NCols(before)
        /\ (LastColumnWiseOk /\ ServedBefore /\ NCols(cells) = NCols(before)) =>
              Last.row > 0

\* An in-grid ColumnWise placement below row 0 on a grid of several columns
C23_Witness ==
    /\ LastColumnWiseOk
    /\ ServedBefore
    /\ NCols(cells) = NCols(before)
    /\ NCols(cells) >= 2
    /\ Last.row > 0

\* ----------------------------------------------------------------- C24
\* C24 (first request): on a fresh allocator the first successful request
\* returns (0, 0) for every mode, every rowSpan in 1..rows and every
\* colSpan >= 1, and leaves the grid with exactly colSpan columns.
C24_FirstRequest ==
    (LastOk /\ ~ServedBefore) =>
        /\ Last.row = 0
        /\ Last.col = 0
        /\ NCols(cells) = Last.colSpan

\* A first successful ColumnWise request wider than the fresh grid, made
\* after a rejected one
C24_Witness ==
    /\ LastColumnWiseOk
    /\ ~ServedBefore
    /\ Len(history) >= 2
    /\ Last.colSpan >= 2
    /\ Last.rowSpan = rows

\* ----------------------------------------------------------------- C25
\* C25 (append-only requests): on an allocator that has served a request,
\* every RowWise request and every ColumnWise request with rowSpan = rows
\* returns (0, C), C the column count before the call, and grows the grid by
\* exactly colSpan columns.
C25_AppendOnly ==
    (LastOk /\ ServedBefore /\ (Last.mode = RowWise \/ Last.rowSpan = rows)) =>
        /\ Last.row = 0
        /\ Last.col = NCols(before)
        /\ NCols(cells) = NCols(before) + Last.colSpan

\* A RowWise request of one cell that is appended although a cell below
\* row 0 was free
C25_Witness ==
    /\ LastRowWiseOk
    /\ ServedBefore
    /\ Last.rowSpan = 1
    /\ Last.colSpan = 1
    /\ \E r \in 1..(NRows(before) - 1) : \E k \in 0..(NCols(before) - 1) :
          before[r + 1][k + 1]

\* ----------------------------------------------------------------- C26
\* C26 (placement within bounds): every successful request returns (row, col)
\* with 0 <= row, row + rowSpan <= rows, 0 <= col and col + colSpan <= the
\* column count after the call.
C26_WithinBounds ==
    /\ \A i \in 1..Len(history) :
          Ok(i) => /\ history[i].row >= 0
                   /\ history[i].row + history[i].rowSpan <= rows
                   /\ history[i].col >= 0
    /\ LastOk => Last.col + Last.colSpan <= NCols(cells)

\* A full-height request that ends at the last row and the last column of a
\* grid it grew
C26_Witness ==
    /\ LastOk
    /\ ServedBefore
    /\ Last.rowSpan = rows
    /\ rows >= 2
    /\ Last.colSpan >= 2
    /\ Last.col + Last.colSpan = NCols(cells)
    /\ NCols(cells) > NCols(before)

\* ----------------------------------------------------------------- C27
\* C27 (no leaked cells): every occupied cell of the grid lies inside the
\* rectangle of some earlier successful request, and no call marks a cell
\* occupied that is outside the rectangle it returns.
C27_NoLeakedCells ==
    /\ \A p \in Occupied(cells) : \E i \in 1..Len(history) : Ok(i) /\ InRect(p, i)
    /\ Called => Changed \subseteq (IF Last.status = "ok" THEN LastRect ELSE {})

\* A grid filled by a RowWise request wider than the fresh grid (row 0 is
\* marked to the right edge) and by later requests, with free cells left
C27_Witness ==
    /\ Len(history) >= 2
    /\ Ok(1) /\ history[1].mode = RowWise /\ history[1].colSpan >= 2
    /\ LastOk
    /\ Cardinality(Occupied(cells)) >= 3
    /\ \E p \in AllCells : cells[p[1] + 1][p[2] + 1]

\* ============================================================ RibbonPanel
\* The row spans addSmallWidget, addMediumWidget and addLargeWidget pass
SmallWidgetRows == 2
MediumWidgetRows == 3
LargeWidgetRows == 6

\* The colSpan default of addWidget and of the builders
DefaultColSpan == 1

Max2(a, b) == IF a > b THEN a ELSE b

\* Python's round(n / d) for n >= 0, d > 0: to the nearest integer, ties to
\* the even one
Round(n, d) ==
    LET q == n \div d
        r == n % d
    IN  IF 2 * r < d THEN q
        ELSE IF 2 * r > d THEN q + 1
        ELSE IF q % 2 = 0 THEN q ELSE q + 1

\* RibbonPanel(maxRows=N)
FreshPanel(N) ==
    /\ FreshManager(N)
    /\ maxRows = N
    /\ largeRows = N
    /\ mediumRows = Max2(Round(N, 2), 1)
    /\ smallRows = Max2(Round(N, 3), 1)
    /\ widgets = <<>>
    /\ actionsLayout = <<>>
    /\ removed = {}
    /\ panelOp = NoOp

\* rowSpan as addButton computes it from the button style
ButtonRowSpan(style) ==
    IF style = "Small" THEN 2 ELSE IF style = "Medium" THEN 3 ELSE 6

\* The style each button builder passes to addButton; addButton itself takes
\* the caller's
ButtonStyleOf(kind, style) ==
    CASE kind = "addSmallButton" -> "Small"
      [] kind = "addMediumButton" -> "Medium"
      [] kind = "addLargeButton" -> "Large"
      [] OTHER -> style

\* The size each sized-widget method is named after
SizeOf(kind) ==
    CASE kind = "addSmallWidget" -> "Small"
      [] kind = "addMediumWidget" -> "Medium"
      [] OTHER -> "Large"

\* rowSpan as addSmallWidget, addMediumWidget and addLargeWidget pass it
SizedWidgetRowSpan(kind) ==
    CASE kind = "addSmallWidget" -> SmallWidgetRows
      [] kind = "addMediumWidget" -> MediumWidgetRows
      [] OTHER -> LargeWidgetRows

\* RibbonPanel.addWidget(widget, rowSpan, colSpan, mode), reached through the
\* public method kind for a widget of the given size ("" when the caller gave
\* the row span); the widget is a new one, numbered by its position in
\* _widgets, and its RibbonPanelItemWidget wrapper is numbered -widget
addWidget(kind, size, rowSpan, colSpan, mode) ==
    LET w == Len(widgets) + 1
        res == request_cells(cells, rows, rowSpan, colSpan, mode)
    IN  /\ widgets' = Append(widgets, w)
        /\ CallManager(rowSpan, colSpan, mode)
        /\ actionsLayout' =
              IF res.status = "ok"
              THEN Append(actionsLayout,
                          [item |-> -w, widget |-> w, row |-> res.row, col |-> res.col,
                           rowSpan |-> rowSpan, colSpan |-> colSpan])
              ELSE actionsLayout
        /\ panelOp' = [kind |-> kind, status |-> res.status, n |-> panelOp.n + 1,
                       widget |-> w, rowSpan |-> rowSpan, size |-> size]
        /\ UNCHANGED <<maxRows, largeRows, mediumRows, smallRows, removed>>
        /\ UNCHANGED <<ribbonVars, categoryVars>>

\* What setMaximumRows(n) does to _maxRows m, and how it ends
setMaximumRowsAssigns(m, n) == [status |-> "ok", maxRows |-> n]

setMaximumRows(m, n) == [status |-> "ValueError", maxRows |-> m]

\* panel.addWidget(widget, rowSpan, mode=mode)
AddWidget(maxOps) ==
    /\ panelOp.n < maxOps
    /\ \E rowSpan \in 1..(maxRows + 1) : \E mode \in {ColumnWise, RowWise} :
          addWidget("addWidget", "", rowSpan, DefaultColSpan, mode)

\* panel.addSmallWidget(widget, mode), addMediumWidget, addLargeWidget
AddSizedWidget(maxOps) ==
    /\ panelOp.n < maxOps
    /\ \E kind \in {"addSmallWidget", "addMediumWidget", "addLargeWidget"} :
          \E mode \in {ColumnWise, RowWise} :
             addWidget(kind, SizeOf(kind), SizedWidgetRowSpan(kind), DefaultColSpan, mode)

\* panel.addButton(style=style, mode=mode), addSmallButton, addMediumButton,
\* addLargeButton
AddButton(maxOps) ==
    /\ panelOp.n < maxOps
    /\ \E kind \in {"addButton", "addSmallButton", "addMediumButton", "addLargeButton"} :
          \E style \in {"Small", "Medium", "Large"} :
             \E mode \in {ColumnWise, RowWise} :
                /\ kind # "addButton" => style = ButtonStyleOf(kind, style)
                /\ addWidget(kind, ButtonStyleOf(kind, style),
                             ButtonRowSpan(ButtonStyleOf(kind, style)),
                             DefaultColSpan, mode)

\* panel.removeWidget(x), x a widget added before or its wrapper item:
\* QGridLayout.removeWidget drops the layout item whose widget is x
RemoveWidget(maxOps) ==
    /\ panelOp.n < maxOps
    /\ \E w \in 1..Len(widgets) : \E x \in {w, -w} :
          /\ actionsLayout' = SelectSeq(actionsLayout, LAMBDA e : e.item # x)
          /\ removed' = removed \cup {x}
          /\ panelOp' = [kind |-> "removeWidget", status |-> "ok", n |-> panelOp.n + 1,
                         widget |-> x, rowSpan |-> 0, size |-> ""]
          /\ before' = cells
          /\ UNCHANGED <<rows, cells, ctorRows, history>>
          /\ UNCHANGED <<maxRows, largeRows, mediumRows, smallRows, widgets>>
          /\ UNCHANGED <<ribbonVars, categoryVars>>

\* panel.setMaximumRows(n)
SetMaximumRows(maxOps) ==
    /\ panelOp.n < maxOps
    /\ \E n \in {1, maxRows, maxRows + 1} :
          LET res == setMaximumRows(maxRows, n)
          IN  /\ maxRows' = res.maxRows
              /\ panelOp' = [kind |-> "setMaximumRows", status |-> res.status,
                             n |-> panelOp.n + 1, widget |-> 0, rowSpan |-> n, size |-> ""]
              /\ before' = cells
              /\ UNCHANGED <<rows, cells, ctorRows, history>>
              /\ UNCHANGED <<largeRows, mediumRows, smallRows, widgets,
                             actionsLayout, removed>>
              /\ UNCHANGED <<ribbonVars, categoryVars>>

\* Variant: the test of the size-row setters has no lower bound
ValidRowsNoLower(r, m) == r <= m

\* 0 < rows <= self._maxRows
ValidRows(r, m) == 0 < r /\ r <= m

\* setLargeRows(r), setMediumRows(r), setSmallRows(r) on a panel with
\* _maxRows m whose field holds cur: how the call ends and what the field holds
setLargeRows(m, cur, r) ==
    IF ~ValidRows(r, m) THEN [status |-> "ValueError", rows |-> cur]
    ELSE [status |-> "ok", rows |-> r]

setMediumRows(m, cur, r) ==
    IF ~ValidRows(r, m) THEN [status |-> "ValueError", rows |-> cur]
    ELSE [status |-> "ok", rows |-> r]

setSmallRows(m, cur, r) ==
    IF ~ValidRows(r, m) THEN [status |-> "ValueError", rows |-> cur]
    ELSE [status |-> "ok", rows |-> r]

\* What a size-row setter leaves behind besides the field it assigns
SizeStep(kind, r, status) ==
    /\ panelOp' = [kind |-> kind, status |-> status, n |-> panelOp.n + 1,
                   widget |-> 0, rowSpan |-> r, size |-> "",
                   sizesBefore |-> <<largeRows, mediumRows, smallRows>>]
    /\ before' = cells
    /\ UNCHANGED <<rows, cells, ctorRows, history>>
    /\ UNCHANGED <<maxRows, widgets, actionsLayout, removed>>
    /\ UNCHANGED <<ribbonVars, categoryVars>>

\* panel.setLargeRows(r)
SetLargeRows(maxOps) ==
    /\ panelOp.n < maxOps
    /\ \E r \in 0..(maxRows + 1) :
          LET res == setLargeRows(maxRows, largeRows, r)
          IN  /\ largeRows' = res.rows
              /\ UNCHANGED <<mediumRows, smallRows>>
              /\ SizeStep("setLargeRows", r, res.status)

\* panel.setMediumRows(r)
SetMediumRows(maxOps) ==
    /\ panelOp.n < maxOps
    /\ \E r \in 0..(maxRows + 1) :
          LET res == setMediumRows(maxRows, mediumRows, r)
          IN  /\ mediumRows' = res.rows
              /\ UNCHANGED <<largeRows, smallRows>>
              /\ SizeStep("setMediumRows", r, res.status)

\* panel.setSmallRows(r)
SetSmallRows(maxOps) ==
    /\ panelOp.n < maxOps
    /\ \E r \in 0..(maxRows + 1) :
          LET res == setSmallRows(maxRows, smallRows, r)
          IN  /\ smallRows' = res.rows
              /\ UNCHANGED <<largeRows, mediumRows>>
              /\ SizeStep("setSmallRows", r, res.status)

\* A panel of any row count, under every panel operation
InitPanel == \E N \in 1..MaxPanelRows : FreshPanel(N) /\ NoRibbon /\ NoCategory

PanelAddWidget == AddWidget(MaxPanelOps)
PanelAddSizedWidget == AddSizedWidget(MaxPanelOps)
PanelAddButton == AddButton(MaxPanelOps)
PanelRemoveWidget == RemoveWidget(MaxPanelOps)
PanelSetMaximumRows == SetMaximumRows(MaxPanelOps)

NextPanel ==
    \/ PanelAddWidget
    \/ PanelAddSizedWidget
    \/ PanelAddButton
    \/ PanelRemoveWidget
    \/ PanelSetMaximumRows

SpecPanel == InitPanel /\ [][NextPanel]_vars

\* A small panel on which widgets are added and removed, in longer runs
InitRemove == \E N \in 1..MaxRemoveRows : FreshPanel(N) /\ NoRibbon /\ NoCategory

AddThenRemoveAdd == AddWidget(MaxRemoveOps)
AddThenRemoveRemove == RemoveWidget(MaxRemoveOps)

NextRemove == AddThenRemoveAdd \/ AddThenRemoveRemove

SpecRemove == InitRemove /\ [][NextRemove]_vars

\* The latest panel operation added a widget (successfully or not)
PanelAdded ==
    panelOp.kind \in {"addWidget", "addSmallWidget", "addMediumWidget",
                      "addLargeWidget", "addButton", "addSmallButton",
                      "addMediumButton", "addLargeButton"}

\* ----------------------------------------------------------------- C12
\* C12 (row-count immutability): setMaximumRows raises ValueError in every
\* panel state, before and after placements, and leaves maximumRows(), the
\* allocator's row count and the occupancy grid unchanged; the allocator's
\* row count equals the panel's construction-time maxRows in every state.
C12_RowCountImmutable ==
    /\ panelOp.kind = "setMaximumRows" =>
          /\ panelOp.status = "ValueError"
          /\ cells = before
    /\ maxRows = ctorRows
    /\ rows = ctorRows
    /\ NRows(cells) = ctorRows

\* setMaximumRows with another row count, called after a widget was placed
C12_Witness ==
    /\ panelOp.kind = "setMaximumRows"
    /\ panelOp.status = "ValueError"
    /\ panelOp.rowSpan # ctorRows
    /\ Len(actionsLayout) >= 1
    /\ Occupied(cells) # {}

\* ----------------------------------------------------------------- C13
\* C13 (no deallocation): removeWidget leaves the allocator's grid unchanged
\* (same column count, every cell keeps its state), a cell once occupied
\* stays occupied after any addWidget / removeWidget, and a request made
\* after a widget was removed never returns a rectangle that covers a cell
\* of the removed widget's rectangle.
C13_NoDeallocation ==
    /\ panelOp.kind = "removeWidget" => cells = before
    /\ \A p \in Occupied(before) : ~cells[p[1] + 1][p[2] + 1]
    /\ (PanelAdded /\ panelOp.status = "ok") =>
          \A i \in 1..(Len(history) - 1) :
              (Ok(i) /\ (i \in removed \/ -i \in removed)) =>
                  ~Overlap(i, Len(history))

\* ----------------------------------------------------------------- C14
\* C14 (large is maxRows): on a panel constructed with maxRows = N >= 1,
\* adding a large widget (addLargeWidget, addLargeButton, or addButton with
\* the Large style) requests rowSpan = N from the allocator and never fails
\* with the invalid-span error.
C14_LargeIsMaxRows ==
    (PanelAdded /\ panelOp.size = "Large") =>
        /\ panelOp.rowSpan = maxRows
        /\ Last.rowSpan = maxRows
        /\ panelOp.status = "ok"

\* ============================================== RibbonPanel.addWidgetsBy
\* Type names and attribute names are tuples of one-character strings, so
\* that str.capitalize() can be computed character by character
LowerCase ==
    <<"a", "b", "c", "d", "e", "f", "g", "h", "i", "j", "k", "l", "m", "n",
      "o", "p", "q", "r", "s", "t", "u", "v", "w", "x", "y", "z">>

UpperCase ==
    <<"A", "B", "C", "D", "E", "F", "G", "H", "I", "J", "K", "L", "M", "N",
      "O", "P", "Q", "R", "S", "T", "U", "V", "W", "X", "Y", "Z">>

\* str.upper() and str.lower() of one character
upper(ch) ==
    IF \E i \in DOMAIN LowerCase : LowerCase[i] = ch
    THEN UpperCase[CHOOSE i \in DOMAIN LowerCase : LowerCase[i] = ch]
    ELSE ch

lower(ch) ==
    IF \E i \in DOMAIN UpperCase : UpperCase[i] = ch
    THEN LowerCase[CHOOSE i \in DOMAIN UpperCase : UpperCase[i] = ch]
    ELSE ch

\* str.capitalize(): the first character in upper case, all the others in
\* lower case
capitalize(s) ==
    [i \in DOMAIN s |-> IF i = 1 THEN upper(s[i]) ELSE lower(s[i])]

\* The class attributes _smallRows and _largeRows, which the builders'
\* rowSpan defaults were evaluated from when the class was defined
ClassSmallRows == 2
ClassLargeRows == 6

\* The rowSpan and colSpan defaults of addHorizontalSeparator
HorizontalSeparatorRows == 1
HorizontalSeparatorCols == 2

\* The type names the docstring of addWidgetsBy lists as possible
DocumentedTypes ==
    {
      <<"B", "u", "t", "t", "o", "n">>,
      <<"S", "m", "a", "l", "l", "B", "u", "t", "t", "o", "n">>,
      <<"M", "e", "d", "i", "u", "m", "B", "u", "t", "t", "o", "n">>,
      <<"L", "a", "r", "g", "e", "B", "u", "t", "t", "o", "n">>,
      <<"T", "o", "g", "g", "l", "e", "B", "u", "t", "t", "o", "n">>,
      <<"S", "m", "a", "l", "l", "T", "o", "g", "g", "l", "e", "B", "u", "t", "t", "o", "n">>,
      <<"M", "e", "d", "i", "u", "m", "T", "o", "g", "g", "l", "e", "B", "u", "t", "t", "o", "n">>,
      <<"L", "a", "r", "g", "e", "T", "o", "g", "g", "l", "e", "B", "u", "t", "t", "o", "n">>,
      <<"C", "o", "m", "b", "o", "B", "o", "x">>,
      <<"F", "o", "n", "t", "C", "o", "m", "b", "o", "B", "o", "x">>,
      <<"L", "i", "n", "e", "E", "d", "i", "t">>,
      <<"T", "e", "x", "t", "E", "d", "i", "t">>,
      <<"P", "l", "a", "i", "n", "T", "e", "x", "t", "E", "d", "i", "t">>,
      <<"L", "a", "b", "e", "l">>,
      <<"P", "r", "o", "g", "r", "e", "s", "s", "B", "a", "r">>,
      <<"S", "p", "i", "n", "B", "o", "x">>,
      <<"D", "o", "u", "b", "l", "e", "S", "p", "i", "n", "B", "o", "x">>,
      <<"D", "a", "t", "a", "E", "d", "i", "t">>,
      <<"T", "i", "m", "e", "E", "d", "i", "t">>,
      <<"D", "a", "t", "e", "T", "i", "m", "e", "E", "d", "i", "t">>,
      <<"T", "a", "b", "l", "e", "W", "i", "d", "g", "e", "t">>,
      <<"T", "r", "e", "e", "W", "i", "d", "g", "e", "t">>,
      <<"L", "i", "s", "t", "W", "i", "d", "g", "e", "t">>,
      <<"C", "a", "l", "e", "n", "d", "a", "r", "W", "i", "d", "g", "e", "t">>,
      <<"S", "e", "p", "a", "r", "a", "t", "o", "r">>,
      <<"H", "o", "r", "i", "z", "o", "n", "t", "a", "l", "S", "e", "p", "a", "r", "a", "t", "o", "r">>,
      <<"V", "e", "r", "t", "i", "c", "a", "l", "S", "e", "p", "a", "r", "a", "t", "o", "r">>,
      <<"G", "a", "l", "l", "e", "r", "y">>
    }

\* The keyword names an entry's 'arguments' dictionary is given
ArgumentNames == {"text", "items", "widget"}

\* The attributes of a RibbonPanel whose name starts with "add", by the rest
\* of the name. For the methods the class defines: the defaults of their
\* rowSpan and colSpan parameters (the span addSmallWidget, addMediumWidget
\* and addLargeWidget pass on), their parameters without a default
\* (required), the ones of ArgumentNames that are among their parameters
\* (accepts), and whether they return the widget they added (addWidget has
\* no return statement, and the three sized methods return its result).
\* addWidgetsBy itself is among them: it needs its data parameter and
\* requests no cells of its own. RibbonPanel extends QFrame, so it also has
\* QWidget.addAction(action) and QWidget.addActions(actions), which need
\* their one parameter and add no widget to the panel
Builders ==
    {
      [name |-> <<"W", "i", "d", "g", "e", "t">>,
       rowSpan |-> ClassSmallRows, colSpan |-> 1,
       required |-> {"widget"}, accepts |-> {"widget"},
       returnsWidget |-> FALSE],
      [name |-> <<"S", "m", "a", "l", "l", "W", "i", "d", "g", "e", "t">>,
       rowSpan |-> SmallWidgetRows, colSpan |-> 1,
       required |-> {"widget"}, accepts |-> {"widget"},
       returnsWidget |-> FALSE],
      [name |-> <<"M", "e", "d", "i", "u", "m", "W", "i", "d", "g", "e", "t">>,
       rowSpan |-> MediumWidgetRows, colSpan |-> 1,
       required |-> {"widget"}, accepts |-> {"widget"},
       returnsWidget |-> FALSE],
      [name |-> <<"L", "a", "r", "g", "e", "W", "i", "d", "g", "e", "t">>,
       rowSpan |-> LargeWidgetRows, colSpan |-> 1,
       required |-> {"widget"}, accepts |-> {"widget"},
       returnsWidget |-> FALSE],
      [name |-> <<"W", "i", "d", "g", "e", "t", "s", "B", "y">>,
       required |-> {"data"}, accepts |-> {}],
      [name |-> <<"A", "c", "t", "i", "o", "n">>,
       required |-> {"action"}, accepts |-> {}],
      [name |-> <<"A", "c", "t", "i", "o", "n", "s">>,
       required |-> {"actions"}, accepts |-> {}],
      [name |-> <<"B", "u", "t", "t", "o", "n">>,
       rowSpan |-> ButtonRowSpan("Large"), colSpan |-> 1,
       required |-> {}, accepts |-> {"text"},
       returnsWidget |-> TRUE],
      [name |-> <<"S", "m", "a", "l", "l", "B", "u", "t", "t", "o", "n">>,
       rowSpan |-> ButtonRowSpan("Small"), colSpan |-> 1,
       required |-> {}, accepts |-> {"text"},
       returnsWidget |-> TRUE],
      [name |-> <<"M", "e", "d", "i", "u", "m", "B", "u", "t", "t", "o", "n">>,
       rowSpan |-> ButtonRowSpan("Medium"), colSpan |-> 1,
       required |-> {}, accepts |-> {"text"},
       returnsWidget |-> TRUE],
      [name |-> <<"L", "a", "r", "g", "e", "B", "u", "t", "t", "o", "n">>,
       rowSpan |-> ButtonRowSpan("Large"), colSpan |-> 1,
       required |-> {}, accepts |-> {"text"},
       returnsWidget |-> TRUE],
      [name |-> <<"T", "o", "g", "g", "l", "e", "B", "u", "t", "t", "o", "n">>,
       rowSpan |-> ButtonRowSpan("Large"), colSpan |-> 1,
       required |-> {}, accepts |-> {"text"},
       returnsWidget |-> TRUE],
      [name |-> <<"S", "m", "a", "l", "l", "T", "o", "g", "g", "l", "e", "B", "u", "t", "t", "o", "n">>,
       rowSpan |-> ButtonRowSpan("Small"), colSpan |-> 1,
       required |-> {}, accepts |-> {"text"},
       returnsWidget |-> TRUE],
      [name |-> <<"M", "e", "d", "i", "u", "m", "T", "o", "g", "g", "l", "e", "B", "u", "t", "t", "o", "n">>,
       rowSpan |-> ButtonRowSpan("Medium"), colSpan |-> 1,
       required |-> {}, accepts |-> {"text"},
       returnsWidget |-> TRUE],
      [name |-> <<"L", "a", "r", "g", "e", "T", "o", "g", "g", "l", "e", "B", "u", "t", "t", "o", "n">>,
       rowSpan |-> ButtonRowSpan("Large"), colSpan |-> 1,
       required |-> {}, accepts |-> {"text"},
       returnsWidget |-> TRUE],
      [name |-> <<"C", "o", "m", "b", "o", "B", "o", "x">>,
       rowSpan |-> ClassSmallRows, colSpan |-> 1,
       required |-> {"items"}, accepts |-> {"items"},
       returnsWidget |-> TRUE],
      [name |-> <<"F", "o", "n", "t", "C", "o", "m", "b", "o", "B", "o", "x">>,
       rowSpan |-> ClassSmallRows, colSpan |-> 1,
       required |-> {}, accepts |-> {},
       returnsWidget |-> TRUE],
      [name |-> <<"L", "i", "n", "e", "E", "d", "i", "t">>,
       rowSpan |-> ClassSmallRows, colSpan |-> 1,
       required |-> {}, accepts |-> {},
       returnsWidget |-> TRUE],
      [name |-> <<"T", "e", "x", "t", "E", "d", "i", "t">>,
       rowSpan |-> ClassSmallRows, colSpan |-> 1,
       required |-> {}, accepts |-> {},
       returnsWidget |-> TRUE],
      [name |-> <<"P", "l", "a", "i", "n", "T", "e", "x", "t", "E", "d", "i", "t">>,
       rowSpan |-> ClassSmallRows, colSpan |-> 1,
       required |-> {}, accepts |-> {},
       returnsWidget |-> TRUE],
      [name |-> <<"L", "a", "b", "e", "l">>,
       rowSpan |-> ClassSmallRows, colSpan |-> 1,
       required |-> {"text"}, accepts |-> {"text"},
       returnsWidget |-> TRUE],
      [name |-> <<"P", "r", "o", "g", "r", "e", "s", "s", "B", "a", "r">>,
       rowSpan |-> ClassSmallRows, colSpan |-> 1,
       required |-> {}, accepts |-> {},
       returnsWidget |-> TRUE],
      [name |-> <<"S", "l", "i", "d", "e", "r">>,
       rowSpan |-> ClassSmallRows, colSpan |-> 1,
       required |-> {}, accepts |-> {},
       returnsWidget |-> TRUE],
      [name |-> <<"S", "p", "i", "n", "B", "o", "x">>,
       rowSpan |-> ClassSmallRows, colSpan |-> 1,
       required |-> {}, accepts |-> {},
       returnsWidget |-> TRUE],
      [name |-> <<"D", "o", "u", "b", "l", "e", "S", "p", "i", "n", "B", "o", "x">>,
       rowSpan |-> ClassSmallRows, colSpan |-> 1,
       required |-> {}, accepts |-> {},
       returnsWidget |-> TRUE],
      [name |-> <<"D", "a", "t", "e", "E", "d", "i", "t">>,
       rowSpan |-> ClassSmallRows, colSpan |-> 1,
       required |-> {}, accepts |-> {},
       returnsWidget |-> TRUE],
      [name |-> <<"T", "i", "m", "e", "E", "d", "i", "t">>,
       rowSpan |-> ClassSmallRows, colSpan |-> 1,
       required |-> {}, accepts |-> {},
       returnsWidget |-> TRUE],
      [name |-> <<"D", "a", "t", "e", "T", "i", "m", "e", "E", "d", "i", "t">>,
       rowSpan |-> ClassSmallRows, colSpan |-> 1,
       required |-> {}, accepts |-> {},
       returnsWidget |-> TRUE],
      [name |-> <<"T", "a", "b", "l", "e", "W", "i", "d", "g", "e", "t">>,
       rowSpan |-> ClassLargeRows, colSpan |-> 1,
       required |-> {}, accepts |-> {},
       returnsWidget |-> TRUE],
      [name |-> <<"T", "r", "e", "e", "W", "i", "d", "g", "e", "t">>,
       rowSpan |-> ClassLargeRows, colSpan |-> 1,
       required |-> {}, accepts |-> {},
       returnsWidget |-> TRUE],
      [name |-> <<"L", "i", "s", "t", "W", "i", "d", "g", "e", "t">>,
       rowSpan |-> ClassLargeRows, colSpan |-> 1,
       required |-> {}, accepts |-> {},
       returnsWidget |-> TRUE],
      [name |-> <<"C", "a", "l", "e", "n", "d", "a", "r", "W", "i", "d", "g", "e", "t">>,
       rowSpan |-> ClassLargeRows, colSpan |-> 1,
       required |-> {}, accepts |-> {},
       returnsWidget |-> TRUE],
      [name |-> <<"S", "e", "p", "a", "r", "a", "t", "o", "r">>,
       rowSpan |-> ClassLargeRows, colSpan |-> 1,
       required |-> {}, accepts |-> {},
       returnsWidget |-> TRUE],
      [name |-> <<"H", "o", "r", "i", "z", "o", "n", "t", "a", "l", "S", "e", "p", "a", "r", "a", "t", "o", "r">>,
       rowSpan |-> HorizontalSeparatorRows, colSpan |-> HorizontalSeparatorCols,
       required |-> {}, accepts |-> {},
       returnsWidget |-> TRUE],
      [name |-> <<"V", "e", "r", "t", "i", "c", "a", "l", "S", "e", "p", "a", "r", "a", "t", "o", "r">>,
       rowSpan |-> ClassLargeRows, colSpan |-> 1,
       required |-> {}, accepts |-> {},
       returnsWidget |-> TRUE],
      [name |-> <<"G", "a", "l", "l", "e", "r", "y">>,
       rowSpan |-> ClassLargeRows, colSpan |-> 1,
       required |-> {}, accepts |-> {},
       returnsWidget |-> TRUE]
    }

\* hasattr(self, 'add' + type) and getattr(self, 'add' + type), over the
\* methods the class defines and the ones it inherits
hasattr(type) == \E b \in Builders : b.name = type

getattr(type) == CHOOSE b \in Builders : b.name = type

\* The type values of the entries: the documented names, "Slider" (a
\* builder the docstring leaves out), "button", "widget", "action", and ""
\* for an entry without a 'type' key (widget_data.pop('type', ''))
EntryTypes ==
    DocumentedTypes \cup {<<"S", "l", "i", "d", "e", "r">>,
                          <<"b", "u", "t", "t", "o", "n">>,
                          <<"w", "i", "d", "g", "e", "t">>,
                          <<"a", "c", "t", "i", "o", "n">>,
                          <<>>}

\* None, as a value of the returned dictionary; widgets are numbered from 1
NoWidget == 0

\* An entry of the data dictionary: its 'type' value and the keyword names
\* of its 'arguments' dictionary, {} also for an entry without 'arguments'
\* (widget_data.get('arguments', {}))
Entry(type, arguments) == [type |-> type, arguments |-> arguments]

\* The entries handed to addWidgetsBy: every type value without arguments,
\* a label with its text, a widget to add, a combo box with its items, and
\* a separator with a keyword addSeparator does not have
Entries ==
    {Entry(t, {}) : t \in EntryTypes}
        \cup {Entry(<<"L", "a", "b", "e", "l">>, {"text"}),
              Entry(<<"w", "i", "d", "g", "e", "t">>, {"widget"}),
              Entry(<<"C", "o", "m", "b", "o", "B", "o", "x">>, {"items"}),
              Entry(<<"S", "e", "p", "a", "r", "a", "t", "o", "r">>, {"text"})}

\* method(**arguments) binds its parameters: every parameter without a
\* default is given, and every keyword given is a parameter; the call raises
\* TypeError before the method's body runs otherwise
Binds(method, arguments) ==
    /\ method.required \subseteq arguments
    /\ arguments \subseteq method.accepts

\* The state addWidgetsBy starts its loop with
BulkStart ==
    [status |-> "ok", cells |-> cells, widgets |-> widgets,
     actionsLayout |-> actionsLayout, history |-> history,
     result |-> <<>>, dispatched |-> <<>>]

\* The loop of addWidgetsBy from entry i on; the key of entry i is i.
\* dispatched[i] is the name of the method called for entry i, <<>> when
\* none was; the widget an entry adds is a new one. An exception of the builder ends the loop and the call: what
\* the earlier entries added stays, and nothing is returned
RECURSIVE addWidgetsByFrom(_, _, _, _)
addWidgetsByFrom(data, r, i, st) ==
    IF i > Len(data) THEN st
    ELSE LET type == capitalize(data[i].type)
         IN  IF ~hasattr(type)
             THEN addWidgetsByFrom(data, r, i + 1,
                                   [st EXCEPT !.dispatched = Append(@, <<>>)])
             ELSE LET method == getattr(type)
                      w == Len(st.widgets) + 1
                      res == request_cells(st.cells, r, method.rowSpan,
                                           method.colSpan, ColumnWise)
                      call == [mode |-> ColumnWise, rowSpan |-> method.rowSpan,
                               colSpan |-> method.colSpan, status |-> res.status,
                               row |-> res.row, col |-> res.col]
                      called == [st EXCEPT !.cells = res.cells,
                                           !.widgets = Append(@, w),
                                           !.history = Append(@, call),
                                           !.dispatched = Append(@, method.name)]
                  IN  IF ~Binds(method, data[i].arguments)
                      THEN [st EXCEPT !.status = "TypeError", !.result = <<>>,
                                      !.dispatched = Append(@, method.name)]
                      ELSE IF res.status # "ok"
                      THEN [called EXCEPT !.status = res.status, !.result = <<>>]
                      ELSE addWidgetsByFrom(data, r, i + 1,
                             [called EXCEPT
                                !.actionsLayout =
                                    Append(@, [item |-> -w, widget |-> w,
                                               row |-> res.row, col |-> res.col,
                                               rowSpan |-> method.rowSpan,
                                               colSpan |-> method.colSpan]),
                                !.result = [k \in DOMAIN st.result \cup {i} |->
                                              IF k # i THEN st.result[k]
                                              ELSE IF method.returnsWidget THEN w
                                              ELSE NoWidget]])

\* panel.addWidgetsBy(data): data lists the entries in the dictionary's order
addWidgetsBy(data) ==
    LET st == addWidgetsByFrom(data, rows, 1, BulkStart)
    IN  /\ cells' = st.cells
        /\ before' = cells
        /\ history' = st.history
        /\ widgets' = st.widgets
        /\ actionsLayout' = st.actionsLayout
        /\ panelOp' = [kind |-> "addWidgetsBy", status |-> st.status,
                       n |-> panelOp.n + 1, data |-> data,
                       result |-> st.result, dispatched |-> st.dispatched]
        /\ UNCHANGED <<rows, ctorRows, maxRows, largeRows, mediumRows, smallRows,
                       removed>>
        /\ UNCHANGED <<ribbonVars, categoryVars>>

\* Sequences over S of length 0..n
RECURSIVE SeqUpTo(_, _)
SeqUpTo(S, n) ==
    IF n = 0 THEN {<<>>}
    ELSE LET shorter == SeqUpTo(S, n - 1)
         IN  shorter \cup {Append(s, x) : s \in shorter, x \in S}

\* One bulk construction on a new panel of any row count
InitBulk == \E N \in 1..MaxBulkRows : FreshPanel(N) /\ NoRibbon /\ NoCategory

AddWidgetsBy ==
    /\ panelOp.kind = "none"
    /\ \E data \in SeqUpTo(Entries, MaxBulkEntries) : addWidgetsBy(data)

NextBulk == AddWidgetsBy

SpecBulk == InitBulk /\ [][NextBulk]_vars

\* ----------------------------------------------------------------- C15
\* C15 (bulk construction dispatch): for every type name T the addWidgetsBy
\* docstring lists as possible, an entry {name: {type: T, arguments: ...}}
\* of a call that returns is dispatched to the builder for T, and the
\* returned dictionary contains the key name mapped to the widget that
\* builder created.
C15_BulkDispatch ==
    (panelOp.kind = "addWidgetsBy" /\ panelOp.status = "ok") =>
        \A i \in DOMAIN panelOp.data :
            panelOp.data[i].type \in DocumentedTypes =>
                /\ panelOp.dispatched[i] = panelOp.data[i].type
                /\ i \in DOMAIN panelOp.result
                /\ \E e \in DOMAIN actionsLayout :
                      actionsLayout[e].widget = panelOp.result[i]

\* ================================================================= Ribbon
\* No allocator has been constructed
NoManager ==
    /\ rows = 0
    /\ cells = <<>>
    /\ ctorRows = 0
    /\ before = <<>>
    /\ history = <<>>

\* The titles and styles addCategory is called with; None and the ribbon
\* itself are the other values a Category field can hold
CategoryTitles == {"Home", "View"}
CategoryStyles == {"Normal", "Contextual"}
None == "None"
Self == "ribbon"

\* Category.__init__(title, style, color, parent): the fields it assigns
Category(title, style, color, parent) ==
    [title |-> title, style |-> style, color |-> color, ribbon |-> parent]

\* list.index(x) as a 0-based position, -1 when x is not in the list
IndexOf(s, x) ==
    IF \E i \in DOMAIN s : s[i] = x
    THEN (CHOOSE i \in DOMAIN s : s[i] = x /\ \A j \in 1..(i - 1) : s[j] # x) - 1
    ELSE -1

\* s without its element at the 0-based position index
RemoveAt(s, index) == SubSeq(s, 1, index) \o SubSeq(s, index + 2, Len(s))

ValidIndex(s, index) == index >= 0 /\ index < Len(s)

\* QStackedWidget.setCurrentIndex(index): the current index it leaves
StackSetCurrentIndex(pages, cur, index) ==
    IF ValidIndex(pages, index) /\ index # cur THEN index ELSE cur

\* QTabBar.setCurrentIndex(index): the current index it leaves, and whether
\* currentChanged(index) was emitted
TabSetCurrentIndex(tabs, cur, index) ==
    IF ValidIndex(tabs, index) /\ index # cur
    THEN [current |-> index, emitted |-> TRUE]
    ELSE [current |-> cur, emitted |-> FALSE]

\* QTabBar.removeTab(index) with the default SelectRightTab behaviour: the
\* tabs and current index it leaves, and the index currentChanged was emitted
\* with (emitted FALSE when it was not)
TabRemove(tabs, cur, index) ==
    IF ~ValidIndex(tabs, index)
    THEN [tabs |-> tabs, current |-> cur, emitted |-> FALSE, signal |-> -1]
    ELSE LET left == RemoveAt(tabs, index)
         IN  IF index = cur
             THEN IF left = <<>>
                  THEN [tabs |-> left, current |-> -1, emitted |-> TRUE, signal |-> -1]
                  ELSE LET new == Min2(index, Len(left) - 1)
                       IN  [tabs |-> left, current |-> new, emitted |-> TRUE,
                            signal |-> new]
             ELSE IF index < cur
             THEN [tabs |-> left, current |-> cur - 1, emitted |-> TRUE,
                   signal |-> cur - 1]
             ELSE [tabs |-> left, current |-> cur, emitted |-> FALSE, signal |-> -1]

\* QStackedWidget.removeWidget(self._stackedWidget.widget(index)): widget(index)
\* is None for an index out of range, and removing None removes nothing
StackRemove(pages, cur, index) ==
    IF ~ValidIndex(pages, index)
    THEN [pages |-> pages, current |-> cur]
    ELSE LET left == RemoveAt(pages, index)
         IN  IF index = cur
             THEN [pages |-> left,
                   current |-> IF left = <<>> THEN -1
                               ELSE IF index = Len(left) THEN index - 1 ELSE index]
             ELSE IF index < cur
             THEN [pages |-> left, current |-> cur - 1]
             ELSE [pages |-> left, current |-> cur]

\* Ribbon(): no category, an empty tab bar and an empty stacked widget
FreshRibbon == NoRibbon

\* ribbon.addCategory(title, style): the new category is numbered by its
\* position in created; a tab remembers the category it was added for
addCategory(title, style) ==
    LET c == Len(created) + 1
        category == Category(style, Self, None, None)
        first == tabBar = <<>>
        shown == IF first THEN StackSetCurrentIndex(stackedWidget, stackCurrent, 0)
                 ELSE stackCurrent
    IN  /\ created' = Append(created, category)
        /\ categories' = Append(categories, c)
        /\ tabBar' = Append(tabBar, [text |-> title, owner |-> c])
        /\ tabCurrent' = IF first THEN 0 ELSE tabCurrent
        /\ stackedWidget' = Append(stackedWidget, c)
        /\ stackCurrent' = IF shown < 0 THEN Len(stackedWidget) ELSE shown
        /\ ribbonOp' = [kind |-> "addCategory", status |-> "ok", n |-> ribbonOp.n + 1,
                        category |-> c, title |-> title, style |-> style,
                        tabsBefore |-> tabBar, pagesBefore |-> stackedWidget]

\* ribbon.removeCategory(c)
removeCategory(c) ==
    LET index == IndexOf(categories, c)
    IN  IF index < 0
        THEN /\ ribbonOp' = [kind |-> "removeCategory", status |-> "ValueError",
                             n |-> ribbonOp.n + 1, category |-> c, title |-> "",
                             style |-> "", tabsBefore |-> tabBar,
                             pagesBefore |-> stackedWidget]
             /\ UNCHANGED <<categories, tabBar, stackedWidget, tabCurrent,
                            stackCurrent, created>>
        ELSE LET t == TabRemove(tabBar, tabCurrent, index)
                 shown == IF t.emitted
                          THEN StackSetCurrentIndex(stackedWidget, stackCurrent, t.signal)
                          ELSE stackCurrent
                 s == StackRemove(stackedWidget, shown, index)
             IN  /\ tabBar' = t.tabs
                 /\ tabCurrent' = t.current
                 /\ stackedWidget' = s.pages
                 /\ stackCurrent' = s.current
                 /\ ribbonOp' = [kind |-> "removeCategory", status |-> "ok",
                                 n |-> ribbonOp.n + 1, category |-> c, title |-> "",
                                 style |-> "", tabsBefore |-> tabBar,
                                 pagesBefore |-> stackedWidget]
                 /\ UNCHANGED <<categories, created>>

\* ribbon.setCurrentCategory(c)
setCurrentCategory(c) ==
    LET index == IndexOf(categories, c)
    IN  IF index < 0
        THEN /\ ribbonOp' = [kind |-> "setCurrentCategory", status |-> "ValueError",
                             n |-> ribbonOp.n + 1, category |-> c, title |-> "",
                             style |-> "", tabsBefore |-> tabBar,
                             pagesBefore |-> stackedWidget]
             /\ UNCHANGED <<categories, tabBar, stackedWidget, tabCurrent,
                            stackCurrent, created>>
        ELSE LET t == TabSetCurrentIndex(tabBar, tabCurrent, index)
                 shown == IF t.emitted
                          THEN StackSetCurrentIndex(stackedWidget, stackCurrent, index)
                          ELSE stackCurrent
             IN  /\ tabCurrent' = t.current
                 /\ stackCurrent' = StackSetCurrentIndex(stackedWidget, shown, index)
                 /\ ribbonOp' = [kind |-> "setCurrentCategory", status |-> "ok",
                                 n |-> ribbonOp.n + 1, category |-> c, title |-> "",
                                 style |-> "", tabsBefore |-> tabBar,
                                 pagesBefore |-> stackedWidget]
                 /\ UNCHANGED <<categories, tabBar, stackedWidget, created>>

\* QTabBar.setTabText(index, text): the text of the tab at index, nothing
\* for an index without a tab
TabSetText(tabs, index, text) ==
    IF ValidIndex(tabs, index)
    THEN [tabs EXCEPT ![index + 1].text = text]
    ELSE tabs

\* ribbon.setFileTitle(title)
setFileTitle(title) ==
    /\ tabBar' = TabSetText(tabBar, 0, title)
    /\ ribbonOp' = [kind |-> "setFileTitle", status |-> "ok", n |-> ribbonOp.n + 1,
                    category |-> 0, title |-> title, style |-> "",
                    tabsBefore |-> tabBar, pagesBefore |-> stackedWidget]
    /\ UNCHANGED <<categories, stackedWidget, tabCurrent, stackCurrent, created>>

\* c.setCategoryStyle(style), for a category c that addCategory returned
setCategoryStyle(c, style) ==
    /\ created' = [created EXCEPT ![c].style = style]
    /\ ribbonOp' = [kind |-> "setCategoryStyle", status |-> "ok",
                    n |-> ribbonOp.n + 1, category |-> c, title |-> "",
                    style |-> style, tabsBefore |-> tabBar,
                    pagesBefore |-> stackedWidget]
    /\ UNCHANGED <<categories, tabBar, stackedWidget, tabCurrent, stackCurrent>>

\* The titles setFileTitle is called with
FileTitles == {"File", "Start"}

\* The categories a caller can hold: the ones addCategory returned, and 0
\* for a category that was never added to this ribbon
Held == 0..Len(created)

InitRibbon == NoManager /\ NoPanel /\ FreshRibbon /\ NoCategory

AddCategory ==
    /\ ribbonOp.n < MaxRibbonOps
    /\ \E title \in CategoryTitles : \E style \in CategoryStyles :
          addCategory(title, style)
    /\ UNCHANGED <<allocatorVars, panelVars, categoryVars>>

RemoveCategory ==
    /\ ribbonOp.n < MaxRibbonOps
    /\ \E c \in Held : removeCategory(c)
    /\ UNCHANGED <<allocatorVars, panelVars, categoryVars>>

SetCurrentCategory ==
    /\ ribbonOp.n < MaxRibbonOps
    /\ \E c \in Held : setCurrentCategory(c)
    /\ UNCHANGED <<allocatorVars, panelVars, categoryVars>>

SetFileTitle ==
    /\ ribbonOp.n < MaxRibbonOps
    /\ \E title \in FileTitles : setFileTitle(title)
    /\ UNCHANGED <<allocatorVars, panelVars, categoryVars>>

SetCategoryStyle ==
    /\ ribbonOp.n < MaxRibbonOps
    /\ \E c \in DOMAIN created : \E style \in CategoryStyles :
          setCategoryStyle(c, style)
    /\ UNCHANGED <<allocatorVars, panelVars, categoryVars>>

NextRibbon ==
    \/ AddCategory
    \/ RemoveCategory
    \/ SetCurrentCategory
    \/ SetFileTitle
    \/ SetCategoryStyle

SpecRibbon == InitRibbon /\ [][NextRibbon]_vars

\* The categories the tabs of a tab bar were added for, in tab order
Owners(tabs) == [i \in DOMAIN tabs |-> tabs[i].owner]

\* ----------------------------------------------------------------- C16
\* C16 (addCategory result): addCategory(title, style) returns a newly
\* created category c with c.title() = title and c.categoryStyle() = style,
\* whose owning ribbon is the ribbon it was added to, and appends c to the
\* end of the ribbon's ordered category list.
C16_AddCategoryResult ==
    ribbonOp.kind = "addCategory" =>
        LET c == ribbonOp.category
        IN  /\ c = Len(created)
            /\ created[c].title = ribbonOp.title
            /\ created[c].style = ribbonOp.style
            /\ created[c].ribbon = Self
            /\ categories # <<>>
            /\ categories[Len(categories)] = c
            /\ \A i \in 1..(Len(categories) - 1) : categories[i] # c

\* ----------------------------------------------------------------- C17
\* C17 (ribbon index alignment): after any sequence of addCategory and
\* removeCategory calls the category list, the tab bar and the stacked pages
\* have the same length, and the tab and the page at each category's list
\* index belong to that category; removeCategory(c) removes exactly c's tab
\* and page, and setCurrentCategory(c) makes c the visible category.
C17_IndexAlignment ==
    /\ Len(categories) = Len(tabBar)
    /\ Len(categories) = Len(stackedWidget)
    /\ \A i \in DOMAIN categories :
          /\ tabBar[i].owner = categories[i]
          /\ stackedWidget[i] = categories[i]
    /\ (ribbonOp.kind = "removeCategory" /\ ribbonOp.status = "ok") =>
          /\ \E i \in DOMAIN ribbonOp.pagesBefore :
                ribbonOp.pagesBefore[i] = ribbonOp.category
          /\ stackedWidget =
                SelectSeq(ribbonOp.pagesBefore, LAMBDA p : p # ribbonOp.category)
          /\ Owners(tabBar) =
                SelectSeq(Owners(ribbonOp.tabsBefore),
                          LAMBDA p : p # ribbonOp.category)
    /\ (ribbonOp.kind = "setCurrentCategory" /\ ribbonOp.status = "ok") =>
          /\ ValidIndex(stackedWidget, stackCurrent)
          /\ stackedWidget[stackCurrent + 1] = ribbonOp.category
          /\ ValidIndex(tabBar, tabCurrent)
          /\ tabBar[tabCurrent + 1].owner = ribbonOp.category

\* =============================================================== Category
\* The titles addPanel and the lookups are called with
PanelTitles == {"Clipboard", "Font"}

\* Category._panels is a dictionary, kept as the sequence of its
\* [title, panel] items in insertion order
Keys(ps) == {ps[i].title : i \in DOMAIN ps}

\* self._panels[title], for a title that is a key
GetItem(ps, title) == ps[CHOOSE i \in DOMAIN ps : ps[i].title = title].panel

\* self._panels[title] = panel
SetItem(ps, title, panel) ==
    IF title \in Keys(ps)
    THEN [i \in DOMAIN ps |-> IF ps[i].title = title
                              THEN [title |-> title, panel |-> panel]
                              ELSE ps[i]]
    ELSE Append(ps, [title |-> title, panel |-> panel])

\* self._panels.pop(title), for a title that is a key
Pop(ps, title) == SelectSeq(ps, LAMBDA e : e.title # title)

\* QBoxLayout.insertWidget(index, widget) and the other insertions, index
\* 0-based
InsertAt(s, index, x) == SubSeq(s, 1, index) \o <<x>> \o SubSeq(s, index + 1, Len(s))

\* The items of a box layout: a panel, the line after a panel, the spacer the
\* constructor adds, and a stretch
PanelItem(p) == [kind |-> "panel", panel |-> p]
LineItem == [kind |-> "line", panel |-> 0]
SpacerItem == [kind |-> "spacer", panel |-> 0]
StretchItem == [kind |-> "stretch", panel |-> 0]

\* The panels a layout holds
PanelsIn(layout) ==
    {layout[i].panel : i \in {j \in DOMAIN layout : layout[j].kind = "panel"}}

\* Category(title): no panel, and a layout that holds one spacer
FreshCategory ==
    /\ panels = <<>>
    /\ scrollLayout = <<SpacerItem>>
    /\ panelCount = 0
    /\ categoryOp = NoOp

\* The panel mapping and layout addPanel(title) leaves, for the new panel p
addPanel(ps, layout, title, p) ==
    LET withPanel == InsertAt(layout, Len(layout) - 1, PanelItem(p))
        withLine == InsertAt(withPanel, Len(withPanel) - 1, LineItem)
    IN  [status |-> "ok", panels |-> SetItem(ps, title, p),
         layout |-> Append(withLine, StretchItem), returned |-> p]

\* A removePanel that ignores a title it does not find
removePanelSilent(ps, layout, title) ==
    IF title \notin Keys(ps)
    THEN [status |-> "ok", panels |-> ps, layout |-> layout, returned |-> 0]
    ELSE [status |-> "ok", panels |-> Pop(ps, title),
          layout |-> SelectSeq(layout,
                               LAMBDA e : ~(e.kind = "panel"
                                            /\ e.panel = GetItem(ps, title))),
          returned |-> 0]

\* removePanel(title): the lookup self._panels[title] raises KeyError before
\* anything is removed
removePanel(ps, layout, title) ==
    IF title \notin Keys(ps)
    THEN [status |-> "KeyError", panels |-> ps, layout |-> layout, returned |-> 0]
    ELSE [status |-> "ok", panels |-> Pop(ps, title),
          layout |-> SelectSeq(layout,
                               LAMBDA e : ~(e.kind = "panel"
                                            /\ e.panel = GetItem(ps, title))),
          returned |-> 0]

\* takePanel(title)
takePanel(ps, layout, title) ==
    IF title \notin Keys(ps)
    THEN [status |-> "KeyError", panels |-> ps, layout |-> layout, returned |-> 0]
    ELSE [removePanel(ps, layout, title) EXCEPT !.returned = GetItem(ps, title)]

\* panel(title)
panel(ps, layout, title) ==
    IF title \notin Keys(ps)
    THEN [status |-> "KeyError", panels |-> ps, layout |-> layout, returned |-> 0]
    ELSE [status |-> "ok", panels |-> ps, layout |-> layout,
          returned |-> GetItem(ps, title)]

\* One operation of the category, with what it left behind
CategoryStep(kind, title, res) ==
    /\ panels' = res.panels
    /\ scrollLayout' = res.layout
    /\ categoryOp' = [kind |-> kind, status |-> res.status, n |-> categoryOp.n + 1,
                      title |-> title, returned |-> res.returned,
                      panelsBefore |-> panels, layoutBefore |-> scrollLayout]
    /\ UNCHANGED <<allocatorVars, panelVars, ribbonVars>>

InitCategory == NoManager /\ NoPanel /\ NoRibbon /\ FreshCategory

AddPanel ==
    /\ categoryOp.n < MaxCategoryOps
    /\ \E title \in PanelTitles :
          /\ CategoryStep("addPanel", title,
                          addPanel(panels, scrollLayout, title, panelCount + 1))
          /\ panelCount' = panelCount + 1

RemovePanel ==
    /\ categoryOp.n < MaxCategoryOps
    /\ \E title \in PanelTitles :
          CategoryStep("removePanel", title, removePanel(panels, scrollLayout, title))
    /\ UNCHANGED panelCount

TakePanel ==
    /\ categoryOp.n < MaxCategoryOps
    /\ \E title \in PanelTitles :
          CategoryStep("takePanel", title, takePanel(panels, scrollLayout, title))
    /\ UNCHANGED panelCount

GetPanel ==
    /\ categoryOp.n < MaxCategoryOps
    /\ \E title \in PanelTitles :
          CategoryStep("panel", title, panel(panels, scrollLayout, title))
    /\ UNCHANGED panelCount

NextCategory == AddPanel \/ RemovePanel \/ TakePanel \/ GetPanel

SpecCategory == InitCategory /\ [][NextCategory]_vars

\* The latest category operation was a lookup of a title that was not a key
\* of the panel mapping
AbsentLookup(kind) ==
    /\ categoryOp.kind = kind
    /\ categoryOp.title \notin Keys(categoryOp.panelsBefore)

\* ----------------------------------------------------------------- C18
\* C18 (absent-title lookups): panel(title), removePanel(title) and
\* takePanel(title) with a title that is not in the category's panel mapping
\* fail with a key error and leave the panel mapping and the set of panels in
\* the category's layout unchanged.
C18_AbsentTitle ==
    \A kind \in {"panel", "removePanel", "takePanel"} :
        AbsentLookup(kind) =>
            /\ categoryOp.status = "KeyError"
            /\ panels = categoryOp.panelsBefore
            /\ PanelsIn(scrollLayout) = PanelsIn(categoryOp.layoutBefore)

\* takePanel of a title that was removed before, in a category that still has
\* another panel
C18_Witness ==
    /\ AbsentLookup("takePanel")
    /\ categoryOp.status = "KeyError"
    /\ panels # <<>>
    /\ Cardinality(PanelsIn(scrollLayout)) >= 1
    /\ panelCount >= 2

\* ======================================================= size-row setters
\* A panel of any row count whose size rows are set between additions
InitSize == \E N \in 1..MaxSizeRows : FreshPanel(N) /\ NoRibbon /\ NoCategory

SizeSetLargeRows == SetLargeRows(MaxSizeOps)
SizeSetMediumRows == SetMediumRows(MaxSizeOps)
SizeSetSmallRows == SetSmallRows(MaxSizeOps)
SizeAddSizedWidget == AddSizedWidget(MaxSizeOps)

NextSize ==
    \/ SizeSetLargeRows
    \/ SizeSetMediumRows
    \/ SizeSetSmallRows
    \/ SizeAddSizedWidget

SpecSize == InitSize /\ [][NextSize]_vars

\* The latest panel operation was a size-row setter
SizeSet == panelOp.kind \in {"setLargeRows", "setMediumRows", "setSmallRows"}

\* ----------------------------------------------------------------- C22
\* C22 (size-row setters): on a panel with maxRows = N >= 1, setLargeRows,
\* setMediumRows and setSmallRows accept r iff 0 < r <= N; a rejected call
\* raises an error and leaves the three size rows unchanged; after
\* construction and after any sequence of calls each size row lies in
\* 1..maximumRows(); and no setter call changes the allocator's grid.
C22_SizeRowSetters ==
    /\ 1 <= smallRows /\ smallRows <= maxRows
    /\ 1 <= mediumRows /\ mediumRows <= maxRows
    /\ 1 <= largeRows /\ largeRows <= maxRows
    /\ SizeSet =>
          /\ panelOp.status = "ok" <=> (0 < panelOp.rowSpan /\ panelOp.rowSpan <= maxRows)
          /\ panelOp.status # "ok" =>
                /\ panelOp.status = "ValueError"
                /\ <<largeRows, mediumRows, smallRows>> = panelOp.sizesBefore
          /\ panelOp.status = "ok" =>
                /\ panelOp.kind = "setLargeRows" =>
                      <<largeRows, mediumRows, smallRows>> =
                          <<panelOp.rowSpan, panelOp.sizesBefore[2], panelOp.sizesBefore[3]>>
                /\ panelOp.kind = "setMediumRows" =>
                      <<largeRows, mediumRows, smallRows>> =
                          <<panelOp.sizesBefore[1], panelOp.rowSpan, panelOp.sizesBefore[3]>>
                /\ panelOp.kind = "setSmallRows" =>
                      <<largeRows, mediumRows, smallRows>> =
                          <<panelOp.sizesBefore[1], panelOp.sizesBefore[2], panelOp.rowSpan>>
          /\ cells = before

\* A setter rejects 0 on a panel that holds a widget
C22_Witness ==
    /\ SizeSet
    /\ panelOp.status = "ValueError"
    /\ panelOp.rowSpan = 0
    /\ Occupied(cells) # {}
    /\ maxRows >= 2

\* ----------------------------------------------------------------- C28
\* C28 (failed add leaves the panel unchanged): when addWidget fails because
\* rowSpan exceeds the panel's maxRows, the panel's widgets() list, its
\* layout and its allocator grid are as before the call; the rejected widget
\* is not recorded.
C28_FailedAddUnchanged ==
    (PanelAdded /\ panelOp.status = "ValueError") =>
        /\ \A i \in DOMAIN widgets : widgets[i] # panelOp.widget
        /\ \A e \in DOMAIN actionsLayout : actionsLayout[e].widget # panelOp.widget
        /\ cells = before

\* The panels the mapping of a category reaches by title
Mapped(ps) == {ps[i].panel : i \in DOMAIN ps}

\* ----------------------------------------------------------------- C29
\* C29 (category title/layout consistency): after any sequence of addPanel,
\* removePanel and takePanel calls, including addPanel with a title already
\* in use, the panels reachable by title through the mapping are exactly the
\* panels in the category's layout, with one mapping entry per title;
\* takePanel(title) returns the panel that was mapped to title and
\* afterwards title is absent.
C29_TitleLayoutConsistency ==
    /\ Mapped(panels) = PanelsIn(scrollLayout)
    /\ \A i \in DOMAIN panels : \A j \in DOMAIN panels :
          panels[i].title = panels[j].title => i = j
    /\ (categoryOp.kind = "takePanel" /\ categoryOp.status = "ok") =>
          /\ categoryOp.returned = GetItem(categoryOp.panelsBefore, categoryOp.title)
          /\ categoryOp.title \notin Keys(panels)
====
